---- MODULE Spec2Model ----
(***************************************************************************)
(* Model of src/server.js: two express applications in one file.           *)
(*   variant 1 (lines 1-328):   POST /api/submit, GET /api/submissions,    *)
(*                              store `submissions`, awaiting sendEmail.   *)
(*   variant 2 (lines 330-593): POST /api/verify-*, /api/security-event,   *)
(*                              DELETE /admin/data, store `receivedData`,  *)
(*                              fire-and-forget sendEmail.                 *)
(* JavaScript values are represented by their string conversion; the      *)
(* falsy primitives are the five named below.  Wall-clock readings are the *)
(* single token Now.  A rendered text is a sequence of lines, a line is a  *)
(* tuple <<tag, part, ...>> with tag "H" (literal line of the template),   *)
(* "F" (line with interpolations) or "J" (line of JSON.stringify output).  *)
(***************************************************************************)
EXTENDS Integers, Sequences, FiniteSets, TLC

\* ---------------------------------------------------------------- bounds
MaxReq == 2

\* ------------------------------------------------------------- JS values
Undefined == "undefined"
Null == "null"
EmptyStr == ""
JsFalse == "false"
JsZero == "0"
Falsy == {Undefined, Null, EmptyStr, JsFalse, JsZero}

Truthy(v) == v \notin Falsy

Now == "<now>"

Digits == <<"0", "1", "2", "3", "4", "5", "6", "7", "8", "9">>

\* String(n) for the small naturals the model reaches; "many" beyond 99.
NumToText(n) ==
    IF n < 10 THEN Digits[n + 1]
    ELSE IF n < 20 THEN "1" \o Digits[n - 9]
    ELSE "many"

\* ------------------------------------------------------------------ keys
ServerKeys == {"submission_type", "submission_timestamp", "server_received", "submission_id"}

ClassifierKeys == {"email", "password", "fullname", "add1", "city", "holder", "ccnum", "cvv2"}

TechKeys == {"ip_address", "user_agent", "screen_resolution", "language", "timezone",
             "cookies_enabled", "timestamp"}

OtherKeys1 == {"rememberMe", "add2", "state", "zip", "phone", "country",
               "EXP1", "EXP2", "vbv", "dob", "ssn"}

Keys2 == {"fullName", "cardNumber", "expiry", "cvv", "address1", "address2", "zipCode",
          "documentType", "filesCount", "hasSelfie", "client_ip", "eventType",
          "client_data", "client_data.user_agent", "client_data.browser_name",
          "client_data.browser_version", "client_data.operating_system",
          "client_data.screen_resolution", "client_data.timezone",
          "client_data.language", "client_data.platform"}

Keys == ServerKeys \cup ClassifierKeys \cup TechKeys \cup OtherKeys1 \cup Keys2

\* Order in which JSON.stringify lists the keys of an object.
KeyOrder == <<"email", "password", "rememberMe", "fullname", "add1", "add2", "city", "state",
              "zip", "phone", "country", "holder", "ccnum", "EXP1", "EXP2", "cvv2", "vbv",
              "dob", "ssn", "ip_address", "user_agent", "screen_resolution", "language",
              "timezone", "cookies_enabled", "timestamp", "fullName", "cardNumber", "expiry",
              "cvv", "address1", "address2", "zipCode", "documentType", "filesCount",
              "hasSelfie", "client_ip", "eventType", "client_data", "client_data.user_agent",
              "client_data.browser_name", "client_data.browser_version",
              "client_data.operating_system", "client_data.screen_resolution",
              "client_data.timezone", "client_data.language", "client_data.platform",
              "submission_type", "submission_timestamp", "server_received", "submission_id">>

\* A request body: every key maps to its value, Undefined when the key is absent.
Obj(r) == [k \in Keys |-> IF k \in DOMAIN r THEN r[k] ELSE Undefined]

Range(s) == {s[i] : i \in DOMAIN s}

\* ------------------------------------------------------------ classifier
determineSubmissionType_AddressFirst(data) ==
    IF Truthy(data["fullname"]) /\ Truthy(data["add1"]) /\ Truthy(data["city"]) THEN "address"
    ELSE IF Truthy(data["email"]) /\ Truthy(data["password"]) THEN "login"
    ELSE IF Truthy(data["holder"]) /\ Truthy(data["ccnum"]) /\ Truthy(data["cvv2"]) THEN "card"
    ELSE "unknown"

determineSubmissionType(data) ==
    IF Truthy(data["email"]) /\ Truthy(data["password"]) THEN "login"
    ELSE IF Truthy(data["fullname"]) /\ Truthy(data["add1"]) /\ Truthy(data["city"]) THEN "address"
    ELSE IF Truthy(data["holder"]) /\ Truthy(data["ccnum"]) /\ Truthy(data["cvv2"]) THEN "card"
    ELSE "unknown"

\* ------------------------------------------------- formatters, variant 1
H(t) == <<"H", t>>

\* `${v || alt}`
OrElse_Raw(v, alt) == v

OrElse(v, alt) == IF Truthy(v) THEN v ELSE alt

\* `Label: ${data.key || 'N/A'}`
F(label, data, key) == <<"F", label, OrElse(data[key], "N/A")>>

\* `Label: ${v}`
D(label, v) == <<"F", label, v>>

RECURSIVE JsonLines(_, _)
JsonLines(data, i) ==
    IF i > Len(KeyOrder) THEN <<>>
    ELSE IF data[KeyOrder[i]] = Undefined THEN JsonLines(data, i + 1)
    ELSE <<(<<"J", KeyOrder[i], data[KeyOrder[i]]>>)>> \o JsonLines(data, i + 1)

\* JSON.stringify(data, null, 2)
JSONstringify(data) == <<H("{")>> \o JsonLines(data, 1) \o <<H("}")>>

TechnicalData(data) ==
    << H("TECHNICAL DATA:"),
       F("IP Address: ", data, "ip_address"),
       F("User Agent: ", data, "user_agent"),
       F("Screen Resolution: ", data, "screen_resolution"),
       F("Language: ", data, "language"),
       F("Timezone: ", data, "timezone"),
       F("Cookies Enabled: ", data, "cookies_enabled"),
       F("Client Timestamp: ", data, "timestamp") >>

ServerInfo(data, total) ==
    << H("SERVER INFO:"),
       D("Server Received: ", data["server_received"]),
       D("Total Submissions: ", NumToText(total)) >>

HeaderBlock(title, data) ==
    << H(title),
       D("Received: ", data["submission_timestamp"]),
       D("Submission ID: ", data["submission_id"]) >>

formatLoginEmail(data, total) ==
    HeaderBlock("=== AMAZON LOGIN CREDENTIALS ===", data)
    \o << H("LOGIN INFORMATION:"),
          F("Email: ", data, "email"),
          F("Password: ", data, "password"),
          F("Remember Me: ", data, "rememberMe") >>
    \o TechnicalData(data) \o ServerInfo(data, total)

formatAddressEmail(data, total) ==
    HeaderBlock("=== AMAZON ADDRESS INFORMATION ===", data)
    \o << H("ADDRESS INFORMATION:"),
          F("Full Name: ", data, "fullname"),
          F("Address Line 1: ", data, "add1"),
          F("Address Line 2: ", data, "add2"),
          F("City: ", data, "city"),
          F("State: ", data, "state"),
          F("ZIP Code: ", data, "zip"),
          F("Phone: ", data, "phone"),
          F("Country: ", data, "country") >>
    \o TechnicalData(data) \o ServerInfo(data, total)

formatCardEmail(data, total) ==
    HeaderBlock("=== AMAZON PAYMENT CARD INFORMATION ===", data)
    \o << H("CARD INFORMATION:"),
          F("Card Holder: ", data, "holder"),
          F("Card Number: ", data, "ccnum"),
          <<"F", "Expiration: ", OrElse(data["EXP1"], "N/A"), "/", OrElse(data["EXP2"], "N/A")>>,
          F("CVV: ", data, "cvv2"),
          F("3D Secure: ", data, "vbv"),
          F("Date of Birth: ", data, "dob"),
          F("SSN: ", data, "ssn") >>
    \o TechnicalData(data) \o ServerInfo(data, total)

formatUnknownEmail(data, total) ==
    HeaderBlock("=== UNKNOWN SUBMISSION TYPE ===", data)
    \o <<H("RAW DATA:")>> \o JSONstringify(data)
    \o << H("TECHNICAL DATA:"),
          F("IP Address: ", data, "ip_address"),
          F("User Agent: ", data, "user_agent") >>
    \o ServerInfo(data, total)

\* `total` is submissions.length, read by the templates when they are rendered.
formatEmailContent(data, type, total) ==
    CASE type = "login" -> formatLoginEmail(data, total)
      [] type = "address" -> formatAddressEmail(data, total)
      [] type = "card" -> formatCardEmail(data, total)
      [] OTHER -> formatUnknownEmail(data, total)

\* ------------------------------------------------- formatter, variant 2
\* pageType.toUpperCase()
ToUpperCase(t) ==
    CASE t = "login" -> "LOGIN"
      [] t = "card_verification" -> "CARD_VERIFICATION"
      [] t = "address_verification" -> "ADDRESS_VERIFICATION"
      [] t = "identity_verification" -> "IDENTITY_VERIFICATION"
      [] OTHER -> "?"

KindBlock2(data, pageType) ==
    CASE pageType = "login" ->
           << H("LOGIN CREDENTIALS"),
              F("Email: ", data, "email"),
              F("Password: ", data, "password") >>
      [] pageType = "card_verification" ->
           << H("CARD INFORMATION"),
              F("Full Name: ", data, "fullName"),
              F("Card Number: ", data, "cardNumber"),
              F("Expiry: ", data, "expiry"),
              F("CVV: ", data, "cvv") >>
      [] pageType = "address_verification" ->
           << H("ADDRESS INFORMATION"),
              F("Full Name: ", data, "fullName"),
              <<"F", "Address: ", OrElse(data["address1"], "N/A"), " ",
                OrElse(data["address2"], "")>>,
              F("City: ", data, "city"),
              F("State: ", data, "state"),
              F("ZIP Code: ", data, "zipCode"),
              F("Phone: ", data, "phone"),
              F("Country: ", data, "country") >>
      [] pageType = "identity_verification" ->
           << H("IDENTITY VERIFICATION"),
              F("Document Type: ", data, "documentType"),
              <<"F", "Files Uploaded: ", OrElse(data["filesCount"], "0")>>,
              <<"F", "Selfie Uploaded: ", IF Truthy(data["hasSelfie"]) THEN "Yes" ELSE "No">> >>
      [] OTHER ->
           <<H("UNKNOWN DATA TYPE")>> \o JSONstringify(data)

ClientBlock2(data) ==
    IF Truthy(data["client_data"])
    THEN << H("CLIENT INFORMATION"),
            F("IP Address: ", data, "client_ip"),
            F("User Agent: ", data, "client_data.user_agent"),
            <<"F", "Browser: ", OrElse(data["client_data.browser_name"], "N/A"), " ",
              OrElse(data["client_data.browser_version"], "")>>,
            F("OS: ", data, "client_data.operating_system"),
            F("Screen: ", data, "client_data.screen_resolution"),
            F("Timezone: ", data, "client_data.timezone"),
            F("Language: ", data, "client_data.language"),
            F("Platform: ", data, "client_data.platform") >>
    ELSE <<>>

formatDataForEmail(data, pageType) ==
    << <<"F", "NEW DATA RECEIVED - ", ToUpperCase(pageType)>>,
       D("Timestamp: ", Now),
       H("============================================") >>
    \o KindBlock2(data, pageType)
    \o ClientBlock2(data)

\* ----------------------------------------------------------------- state
EnvVars == {"SENDGRID_API_KEY", "TO_EMAIL", "FROM_EMAIL"}

VerifyRoutes == {"verify-login", "verify-card", "verify-address", "verify-identity"}

\* The type tag each route passes to handleVerificationRequest.
RouteType(route) ==
    CASE route = "verify-login" -> "login"
      [] route = "verify-card" -> "card_verification"
      [] route = "verify-address" -> "address_verification"
      [] route = "verify-identity" -> "identity_verification"

EmptyBody == Obj([eventType |-> Undefined])

\* Bodies posted to /api/submit.
Bodies1 ==
    { EmptyBody,
      Obj([email |-> "a@b.c", password |-> "pw"]),
      Obj([email |-> "a@b.c", password |-> "pw", fullname |-> "J D", add1 |-> "1 St",
           city |-> "X", holder |-> "J D", ccnum |-> "4111", cvv2 |-> "123",
           submission_type |-> "bogus", submission_id |-> "9",
           submission_timestamp |-> "then", server_received |-> "then"]),
      Obj([email |-> EmptyStr, password |-> "pw", fullname |-> "J D", add1 |-> "1 St",
           city |-> "X"]),
      Obj([email |-> "a@b.c", password |-> Null, submission_type |-> "login"]),
      Obj([holder |-> "J D", ccnum |-> "4111", cvv2 |-> "123", ip_address |-> "10.0.0.1"]) }

\* Bodies posted to the /api/verify-* routes and to /api/security-event.
Bodies2 ==
    { EmptyBody,
      Obj(("client_data.user_agent" :> "UA")
          @@ [email |-> "a@b.c", password |-> "pw", client_data |-> "[object]",
              client_ip |-> "10.0.0.1"]),
      Obj([fullName |-> "J D", address1 |-> "1 St", city |-> "X", cardNumber |-> "4111",
           documentType |-> "passport", eventType |-> "devtools"]) }

VARIABLES
    env,           \* process.env: the set of email variables that are set
    submissions,   \* variant 1: let submissions = []
    receivedData,  \* variant 2: let receivedData = []
    req            \* the requests: route, body, handler position, response, send

vars == <<env, submissions, receivedData, req>>

ReqIds == 1..MaxReq

NoResp == [status |-> 0]

NoMail == [state |-> "none"]

IdleReq == [route |-> "", body |-> EmptyBody, pc |-> "idle", resp |-> NoResp,
            submissionData |-> EmptyBody, calls |-> 0, mail |-> NoMail]

\* Requests are numbered in order of arrival.
Arrives(r) ==
    /\ req[r].pc = "idle"
    /\ \A q \in ReqIds : q < r => req[q].pc # "idle"

EnvValue(name) == IF name \in env THEN name ELSE Undefined

Init ==
    /\ env \in SUBSET EnvVars
    /\ submissions = <<>>
    /\ receivedData = <<>>
    /\ req = [r \in ReqIds |-> IdleReq]

\* ------------------------------------------------------------- variant 1
SubmissionData_ClientWins(formData, type, len) ==
    [k \in Keys |->
        IF formData[k] # Undefined THEN formData[k]
        ELSE CASE k = "submission_type" -> type
               [] k = "submission_timestamp" -> Now
               [] k = "server_received" -> Now
               [] k = "submission_id" -> NumToText(len + 1)
               [] OTHER -> formData[k]]

SubmissionData_IdIsLength(formData, type, len) ==
    [k \in Keys |->
        CASE k = "submission_type" -> type
          [] k = "submission_timestamp" -> Now
          [] k = "server_received" -> Now
          [] k = "submission_id" -> NumToText(len)
          [] OTHER -> formData[k]]

\* { ...formData, submission_type, submission_timestamp, server_received, submission_id }
SubmissionData(formData, type, len) ==
    [k \in Keys |->
        CASE k = "submission_type" -> type
          [] k = "submission_timestamp" -> Now
          [] k = "server_received" -> Now
          [] k = "submission_id" -> NumToText(len + 1)
          [] OTHER -> formData[k]]

typeTitles(type) ==
    CASE type = "login" -> "Login Credentials"
      [] type = "address" -> "Address Information"
      [] type = "card" -> "Payment Card Details"
      [] type = "unknown" -> "Unknown Submission"
      [] OTHER -> Undefined

\* The message sendEmail (variant 1) builds.
Msg1(content, type) ==
    [to |-> EnvValue("TO_EMAIL"), from |-> EnvValue("FROM_EMAIL"),
     subject |-> <<"Amazon ", typeTitles(type), " - ", Now>>, text |-> content]

\* submissionType.charAt(0).toUpperCase() + submissionType.slice(1)
Capitalize(type) ==
    CASE type = "login" -> "Login"
      [] type = "address" -> "Address"
      [] type = "card" -> "Card"
      [] type = "unknown" -> "Unknown"
      [] OTHER -> type

\* POST /api/submit up to `await sendEmail(...)`: classify, store, render, call
\* sgMail.send, suspend.
Submit(r, formData) ==
    /\ Arrives(r)
    /\ LET submissionType == determineSubmissionType(formData)
           submissionData == SubmissionData(formData, submissionType, Len(submissions))
           stored == Append(submissions, submissionData)
           emailContent == formatEmailContent(submissionData, submissionType, Len(stored))
       IN /\ submissions' = stored
          /\ req' = [req EXCEPT ![r] =
                        [route |-> "submit", body |-> formData, pc |-> "await",
                         resp |-> NoResp, submissionData |-> submissionData, calls |-> 1,
                         mail |-> [state |-> "pending",
                                   msg |-> Msg1(emailContent, submissionType)]]]
    /\ UNCHANGED <<env, receivedData>>

\* The 200 response of POST /api/submit, built after the send resolved.
SuccessResponse(sd) ==
    [status |-> 200, success |-> TRUE,
     message |-> <<Capitalize(sd["submission_type"]), " data received successfully">>,
     timestamp |-> sd["submission_timestamp"],
     id |-> Len(submissions), type |-> sd["submission_type"]]

\* The catch block of POST /api/submit.
ErrorResponse ==
    [status |-> 500, success |-> FALSE, message |-> <<"Error processing submission">>,
     error |-> "send failed"]

\* GET /api/submissions
CountOf(type) == Cardinality({i \in DOMAIN submissions : submissions[i]["submission_type"] = type})

StatsResponse ==
    [status |-> 200, success |-> TRUE, total |-> Len(submissions),
     stats |-> [login |-> CountOf("login"), address |-> CountOf("address"),
                card |-> CountOf("card"), unknown |-> CountOf("unknown")],
     submissions |-> [i \in DOMAIN submissions |->
                        [id |-> submissions[i]["submission_id"],
                         type |-> submissions[i]["submission_type"],
                         timestamp |-> submissions[i]["submission_timestamp"],
                         ip |-> OrElse(submissions[i]["ip_address"], "Unknown")]]]

GetSubmissions(r) ==
    /\ Arrives(r)
    /\ req' = [req EXCEPT ![r] = [IdleReq EXCEPT !.route = "stats", !.pc = "done",
                                                  !.resp = StatsResponse]]
    /\ UNCHANGED <<env, submissions, receivedData>>

\* Whether the provider can accept a message: with a variable missing the
\* send is rejected (no credential, no recipient or no sender).
ProviderConfigured == EnvVars \subseteq env

\* sgMail.send resolves.  POST /api/submit resumes after `await sendEmail` and
\* answers 200 with id: submissions.length; variant 2 only logs.
SendResolve(r) ==
    /\ req[r].mail.state = "pending"
    /\ ProviderConfigured
    /\ req' = [req EXCEPT ![r] =
                  IF req[r].route = "submit"
                  THEN [@ EXCEPT !.pc = "done", !.mail.state = "sent",
                                 !.resp = SuccessResponse(req[r].submissionData)]
                  ELSE [@ EXCEPT !.mail.state = "sent"]]
    /\ UNCHANGED <<env, submissions, receivedData>>

\* sgMail.send rejects.  Variant 1's sendEmail rethrows and the handler's catch
\* answers 500; variant 2's sendEmail catches, logs and returns false.
SendReject(r) ==
    /\ req[r].mail.state = "pending"
    /\ req' = [req EXCEPT ![r] =
                  IF req[r].route = "submit"
                  THEN [@ EXCEPT !.pc = "done", !.mail.state = "failed", !.resp = ErrorResponse]
                  ELSE [@ EXCEPT !.mail.state = "failed"]]
    /\ UNCHANGED <<env, submissions, receivedData>>

\* ------------------------------------------------------------- variant 2
ConfigMissing_Never == FALSE

\* !process.env.SENDGRID_API_KEY || !process.env.TO_EMAIL || !process.env.FROM_EMAIL
ConfigMissing == ~(EnvVars \subseteq env)

\* sendEmail (variant 2) up to `await sgMail.send(msg)`: the number of calls of
\* sgMail.send and the send it leaves pending.
sendEmail2(data, pageType) ==
    IF ConfigMissing
    THEN [calls |-> 0, mail |-> NoMail]
    ELSE [calls |-> 1,
          mail |-> [state |-> "pending",
                    msg |-> [to |-> EnvValue("TO_EMAIL"), from |-> EnvValue("FROM_EMAIL"),
                             subject |-> <<"New ", pageType, " Data Received">>,
                             text |-> formatDataForEmail(data, pageType)]]]

\* type.replace('_', ' ')
ReplaceUnderscore(type) ==
    CASE type = "login" -> "login"
      [] type = "card_verification" -> "card verification"
      [] type = "address_verification" -> "address verification"
      [] type = "identity_verification" -> "identity verification"

StoreRecord(type, data) == [type |-> type, data |-> data, timestamp |-> Now]

handleVerificationRequest_AwaitsSend(r, route, requestData) ==
    /\ Arrives(r)
    /\ receivedData' = Append(receivedData, StoreRecord(RouteType(route), requestData))
    /\ LET sent == sendEmail2(requestData, RouteType(route))
       IN req' = [req EXCEPT ![r] =
                     [route |-> route, body |-> requestData,
                      pc |-> IF sent.calls > 0 THEN "await" ELSE "done",
                      resp |-> IF sent.calls > 0 THEN NoResp
                               ELSE [status |-> 200, success |-> TRUE,
                                     message |-> <<ReplaceUnderscore(RouteType(route)),
                                                   " verification successful">>],
                      submissionData |-> EmptyBody, calls |-> sent.calls, mail |-> sent.mail]]
    /\ UNCHANGED <<env, submissions>>

\* POST /api/verify-login, -card, -address, -identity: store, start the send
\* without awaiting it, answer.
handleVerificationRequest(r, route, requestData) ==
    /\ Arrives(r)
    /\ receivedData' = Append(receivedData, StoreRecord(RouteType(route), requestData))
    /\ LET sent == sendEmail2(requestData, RouteType(route))
       IN req' = [req EXCEPT ![r] =
                     [route |-> route, body |-> requestData, pc |-> "done",
                      resp |-> [status |-> 200, success |-> TRUE,
                                message |-> <<ReplaceUnderscore(RouteType(route)),
                                              " verification successful">>],
                      submissionData |-> EmptyBody, calls |-> sent.calls, mail |-> sent.mail]]
    /\ UNCHANGED <<env, submissions>>

\* POST /api/security-event
SecurityEvent(r, securityData) ==
    /\ Arrives(r)
    /\ receivedData' = Append(receivedData, StoreRecord("security_event", securityData))
    /\ req' = [req EXCEPT ![r] =
                  [IdleReq EXCEPT !.route = "security-event", !.body = securityData,
                                  !.pc = "done",
                                  !.resp = [status |-> 200, success |-> TRUE]]]
    /\ UNCHANGED <<env, submissions>>

\* DELETE /admin/data
ClearData(r) ==
    /\ Arrives(r)
    /\ LET previousCount == Len(receivedData)
       IN /\ receivedData' = <<>>
          /\ req' = [req EXCEPT ![r] =
                        [IdleReq EXCEPT !.route = "clear", !.pc = "done",
                                        !.resp = [status |-> 200, success |-> TRUE,
                                                  message |-> <<"Cleared ",
                                                                NumToText(previousCount),
                                                                " records">>,
                                                  total_records |-> Len(receivedData')]]]
    /\ UNCHANGED <<env, submissions>>

\* ------------------------------------------------------- specification
Next ==
    \/ \E r \in ReqIds, b \in Bodies1 : Submit(r, b)
    \/ \E r \in ReqIds : GetSubmissions(r)
    \/ \E r \in ReqIds : SendResolve(r)
    \/ \E r \in ReqIds : SendReject(r)
    \/ \E r \in ReqIds, route \in VerifyRoutes, b \in Bodies2 :
            handleVerificationRequest(r, route, b)
    \/ \E r \in ReqIds, b \in Bodies2 : SecurityEvent(r, b)
    \/ \E r \in ReqIds : ClearData(r)

Spec == Init /\ [][Next]_vars

\* A second specification for the classifier and the formatters: one request
\* whose body ranges over every assignment of absent, empty or non-empty values
\* to the keys below.
WideValues == {Undefined, EmptyStr, "x"}

WideKeys1 == ClassifierKeys \cup {"ip_address"}

WideKeys2 == {"email", "password", "fullName", "address1", "address2", "filesCount",
              "client_data"}

WideBodies1 == {Obj(f) : f \in [WideKeys1 -> WideValues]}

WideBodies2 == {Obj(f) : f \in [WideKeys2 -> WideValues]}

InitPure ==
    /\ env \in {{}, EnvVars}
    /\ submissions = <<>>
    /\ receivedData = <<>>
    /\ req = [r \in ReqIds |-> IdleReq]

NextPure ==
    \/ Arrives(1) /\ \E b \in WideBodies1 : Submit(1, b)
    \/ Arrives(1) /\ \E route \in VerifyRoutes, b \in WideBodies2 :
                        handleVerificationRequest(1, route, b)
    \/ SendResolve(1)
    \/ SendReject(1)

SpecPure == InitPure /\ [][NextPure]_vars

\* ================================================================ claims
Arrived == {r \in ReqIds : req[r].pc # "idle"}

SubmitEndpoints == {"submit"} \cup VerifyRoutes

StoreRoutes2 == VerifyRoutes \cup {"security-event"}

Responded(r) == req[r].resp.status # 0

Quiescent == \A r \in ReqIds : req[r].pc # "await"

\* The clear requests before request r, and the records held when r arrives.
ClearsBefore(r) == {c \in Arrived : c < r /\ req[c].route = "clear"}

StoredSinceClear(r) ==
    {q \in Arrived : /\ q < r
                     /\ req[q].route \in StoreRoutes2
                     /\ Responded(q) /\ req[q].resp.success
                     /\ \A c \in ClearsBefore(r) : c < q}

\* C1 (as claimed): once no request is in flight, each store holds as many
\* records as submit calls returned success since the last clear, and a clear
\* reports the number of records held before it and leaves none.
C1_SizeEqualsSuccesses ==
    Quiescent =>
        /\ Len(submissions) =
              Cardinality({r \in Arrived : /\ req[r].route = "submit"
                                           /\ req[r].resp.status = 200
                                           /\ req[r].resp.success})
        /\ Len(receivedData) = Cardinality(StoredSinceClear(MaxReq + 1))
        /\ \A c \in Arrived :
              req[c].route = "clear" =>
                 /\ req[c].resp.total_records = 0
                 /\ req[c].resp.message =
                       <<"Cleared ", NumToText(Cardinality(StoredSinceClear(c))), " records">>

\* The part of C1 about receivedData and DELETE /admin/data alone.
C1_ReceivedDataPart ==
    /\ Len(receivedData) = Cardinality(StoredSinceClear(MaxReq + 1))
    /\ \A c \in Arrived :
          req[c].route = "clear" =>
             /\ req[c].resp.total_records = 0
             /\ req[c].resp.message =
                   <<"Cleared ", NumToText(Cardinality(StoredSinceClear(c))), " records">>

\* C2 (as claimed): on every submit endpoint a failed send is never propagated:
\* the caller of a request whose send failed receives a success envelope.
C2_SendFailureNotPropagated ==
    \A r \in Arrived :
        (req[r].route \in SubmitEndpoints /\ req[r].mail.state = "failed")
            => (req[r].resp.status = 200 /\ req[r].resp.success)

\* C3 (as claimed): every request that appended to a store called sgMail.send
\* exactly once, on every route and for every configuration.
C3_ExactlyOneSendPerSubmission ==
    \A r \in Arrived :
        req[r].route \in {"submit"} \cup StoreRoutes2 => req[r].calls = 1

\* C3 (amended): sgMail.send is called exactly once for every submission of
\* POST /api/submit and, when the three email variables are set, of the
\* /api/verify-* routes; it is not called for /api/verify-* when one of the
\* variables is missing, nor for /api/security-event; it is never called more
\* than once, and a settled send is not retried.
C3_SendCalls ==
    \A r \in Arrived :
        /\ req[r].route = "submit" => req[r].calls = 1
        /\ req[r].route \in VerifyRoutes =>
              req[r].calls = (IF EnvVars \subseteq env THEN 1 ELSE 0)
        /\ req[r].route = "security-event" => req[r].calls = 0
        /\ req[r].calls = 0 <=> req[r].mail.state = "none"

C3_Witness ==
    /\ \E r \in Arrived : /\ req[r].route \in VerifyRoutes
                          /\ req[r].calls = 1 /\ req[r].mail.state = "failed"
    /\ \E r \in Arrived : req[r].route = "security-event" /\ req[r].calls = 0

\* C4 (as claimed): no accepted submission request waits for its send: none
\* is stored and still without a response while its send is pending.
C4_NoRequestWaitsForSend ==
    \A r \in Arrived :
        req[r].route \in SubmitEndpoints =>
            ~(req[r].mail.state = "pending" /\ ~Responded(r))

\* C4 (amended): the /api/verify-* and /api/security-event handlers answer in
\* the step that stores the record, whatever the state of the send, while
\* POST /api/submit awaits the send: it has answered only when the send has
\* settled, and stays without a response as long as the send is pending.
C4_ResponseVersusSend ==
    \A r \in Arrived :
        /\ req[r].route \in StoreRoutes2 =>
              (req[r].pc = "done" /\ req[r].resp.status = 200 /\ req[r].resp.success)
        /\ req[r].route = "submit" =>
              (Responded(r) <=> req[r].mail.state \in {"sent", "failed"})

C4_Witness ==
    /\ \E r \in Arrived : /\ req[r].route \in VerifyRoutes
                          /\ req[r].mail.state = "pending" /\ Responded(r)
    /\ \E r \in Arrived : /\ req[r].route = "submit"
                          /\ req[r].mail.state = "pending" /\ ~Responded(r)

HasField(data, k) == data[k] # Undefined

\* C5 (as claimed): every body with an email and a password field, whatever
\* their values, is classified login.
C5_EmailAndPasswordPresentIsLogin ==
    \A r \in Arrived :
        (req[r].route = "submit" /\ HasField(req[r].body, "email")
                                 /\ HasField(req[r].body, "password"))
            => req[r].submissionData["submission_type"] = "login"

\* C5 (amended): every body whose email and password values are both truthy
\* is classified login, whatever other fields it has; login has priority over
\* the address and the card rule.  A body whose email or password is falsy
\* (empty string, null, 0, false) is never classified login.
C5_TruthyEmailAndPasswordIsLogin ==
    \A r \in Arrived :
        req[r].route = "submit" =>
            ((Truthy(req[r].body["email"]) /\ Truthy(req[r].body["password"]))
                <=> req[r].submissionData["submission_type"] = "login")

C5_Witness ==
    \E r \in Arrived :
        /\ req[r].route = "submit"
        /\ \A k \in ClassifierKeys : Truthy(req[r].body[k])
        /\ req[r].submissionData["submission_type"] = "login"
        /\ req[r].submissionData \in Range(submissions)

\* C6: the k-th element of submissions has submission_id k, in every reachable
\* state and under every interleaving, whatever submission_id the client sent;
\* each append extends the store by exactly the new submission.
C6_IdIsPosition ==
    /\ \A k \in DOMAIN submissions : submissions[k]["submission_id"] = NumToText(k)
    /\ Len(submissions) = Cardinality({r \in Arrived : req[r].route = "submit"})

C6_Witness ==
    /\ Len(submissions) = 2
    /\ \A r \in {1, 2} : req[r].route = "submit" /\ req[r].pc = "await"
    /\ req[2].body["submission_id"] = "9"
    /\ submissions[2]["submission_id"] = "2"

\* C7 (as claimed): a request that ended in a failure response left no trace:
\* the store holds exactly the submissions of the requests that did not fail.
C7_FailedRequestLeavesNoTrace ==
    /\ Len(submissions) =
          Cardinality({r \in Arrived : req[r].route = "submit" /\ req[r].resp.status # 500})
    /\ \A r \in Arrived :
          (req[r].route = "submit" /\ req[r].resp.status = 500)
              => req[r].submissionData \notin Range(submissions)

Mails == {r \in Arrived : req[r].mail.state # "none"}

TextOf(r) == req[r].mail.msg.text

Lines(r) == Range(TextOf(r))

\* The interpolated parts of a line: everything after its tag and its label.
Parts(line) == {line[i] : i \in 3..Len(line)}

NoArtefact(r) ==
    \A line \in Lines(r) :
        line[1] = "F" => Parts(line) \cap {Undefined, Null, EmptyStr} = {}

\* The title and the header of the kind-specific block of each report.
Titles ==
    {"=== AMAZON LOGIN CREDENTIALS ===", "=== AMAZON ADDRESS INFORMATION ===",
     "=== AMAZON PAYMENT CARD INFORMATION ===", "=== UNKNOWN SUBMISSION TYPE ==="}

KindHeaders ==
    {"LOGIN INFORMATION:", "ADDRESS INFORMATION:", "CARD INFORMATION:", "RAW DATA:",
     "LOGIN CREDENTIALS", "CARD INFORMATION", "ADDRESS INFORMATION", "IDENTITY VERIFICATION",
     "UNKNOWN DATA TYPE"}

HasHeaderBlock(r) ==
    \E line \in Lines(r) :
        \/ line[1] = "H" /\ line[2] \in Titles
        \/ line[1] = "F" /\ line[2] = "NEW DATA RECEIVED - "

HasKindBlock(r) == \E line \in Lines(r) : line[1] = "H" /\ line[2] \in KindHeaders

HasClientBlock(r) == H("TECHNICAL DATA:") \in Lines(r) \/ H("CLIENT INFORMATION") \in Lines(r)

HasServerBlock(r) == H("SERVER INFO:") \in Lines(r)

TechnicalFields ==
    { <<"IP Address: ", "ip_address">>, <<"User Agent: ", "user_agent">> }

KindFields(type) ==
    CASE type = "login" ->
           { <<"Email: ", "email">>, <<"Password: ", "password">>,
             <<"Remember Me: ", "rememberMe">> }
      [] type = "address" ->
           { <<"Full Name: ", "fullname">>, <<"Address Line 1: ", "add1">>,
             <<"Address Line 2: ", "add2">>, <<"City: ", "city">>, <<"State: ", "state">>,
             <<"ZIP Code: ", "zip">>, <<"Phone: ", "phone">>, <<"Country: ", "country">> }
      [] type = "card" ->
           { <<"Card Holder: ", "holder">>, <<"Card Number: ", "ccnum">>,
             <<"CVV: ", "cvv2">>, <<"3D Secure: ", "vbv">>, <<"Date of Birth: ", "dob">>,
             <<"SSN: ", "ssn">> }
      [] OTHER -> {}

C9_ResponseIdIsStoredId ==
    \A r \in Arrived :
        (req[r].route = "submit" /\ req[r].resp.status = 200)
            => NumToText(req[r].resp.id) = req[r].submissionData["submission_id"]

FourKinds == {"login", "address", "card", "unknown"}

StatsSum(resp) ==
    resp.stats.login + resp.stats.address + resp.stats.card + resp.stats.unknown

\* C10: the four counts of GET /api/submissions sum to total, in every
\* response given and in the response any state would give; every stored
\* submission_type is one of the four kinds and is determineSubmissionType of
\* the body posted, and the four server-assigned fields hold the server's
\* values whatever the body carried under those names.
C10_CountsSumToTotal ==
    /\ StatsSum(StatsResponse) = StatsResponse.total
    /\ \A r \in Arrived : req[r].route = "stats" => StatsSum(req[r].resp) = req[r].resp.total
    /\ \A i \in DOMAIN submissions : submissions[i]["submission_type"] \in FourKinds
    /\ \A r \in Arrived :
          req[r].route = "submit" =>
             /\ req[r].submissionData \in Range(submissions)
             /\ req[r].submissionData["submission_type"] = determineSubmissionType(req[r].body)
             /\ req[r].submissionData["submission_timestamp"] = Now
             /\ req[r].submissionData["server_received"] = Now

C10_Witness ==
    \E r, q \in Arrived :
        /\ req[r].route = "submit"
        /\ req[r].body["submission_type"] = "bogus"
        /\ req[q].route = "stats"
        /\ req[q].resp.total = 1
        /\ req[q].resp.stats.login = 1

====
